---- MODULE Spec2Model ----
(***************************************************************************)
(* A model of the two programs of the repository.                          *)
(*                                                                         *)
(* The retail transaction pipeline of src/retail_transaction_analysis.py:  *)
(* main() loads a CSV table, cleans it, runs the exploration and the three *)
(* segment analyses, renders two images and prints the insights and the    *)
(* final summary.  Its specification is Spec.                              *)
(*                                                                         *)
(* The library of src/library_management_system_Assignment.py: the module  *)
(* globals and the functions that work on them.  Its specifications are    *)
(* LibrarySpec and LendingSpec, in the second half of the module.          *)
(*                                                                         *)
(* Encoding of pandas values.                                              *)
(*  - A text cell is a string; the empty string is an empty CSV field,     *)
(*    which read_csv loads as NaN.                                         *)
(*  - A numeric cell is <<v>> or <<>> (NaN).  v is a fixed-point number    *)
(*    with two decimals: <<150>> is 1.50.  The inputs are whole numbers.   *)
(*  - A date cell is <<y, m, d>> or <<>> (NaT).                            *)
(*  - A DataFrame is [rows, dtypes]: the rows in order and the dtype of    *)
(*    each column, which select_dtypes reads.                              *)
(*  - pandas 2.x is modelled: Series.fillna(inplace=True) on df[col]       *)
(*    writes through to df, Series.dt.year is int32, isocalendar().week    *)
(*    is UInt32.                                                           *)
(***************************************************************************)
EXTENDS Integers, Sequences, FiniteSets, TLC

VARIABLES
    file,                  \* the CSV file at DATASET_PATH: absent, or its rows
    pc,                    \* the statement of main() that runs next
    df,                    \* main's df
    out,                   \* what has been printed and saved so far, in order
    exploration_results,   \* main's locals, None until assigned
    spending_by_category,
    items_by_store,
    discount_diff,
    promotion_analysis,
    season_analysis,
    \* the globals of the library module
    books,                 \* book_id -> [title, author, genre, availability]
    members,               \* member_id -> [name, age, contact]
    borrow_log,            \* the list of borrowing transactions
    member_borrowed_books, \* member_id -> list of book_ids
    next_book_id,
    next_member_id,
    call                   \* the last call of a library function and its outcome

retail_vars == <<file, pc, df, out, exploration_results, spending_by_category,
                 items_by_store, discount_diff, promotion_analysis, season_analysis>>
library_vars == <<books, members, borrow_log, member_borrowed_books, next_book_id,
                  next_member_id, call>>
vars == <<retail_vars, library_vars>>

\* The longest input table explored, and the longest in the scenario of the Loader.
MaxRows == 3
MaxLoaderRows == 4
\* The longest table of the scenario of the cities.
MaxCityRows == 12

\* Two decimals of fixed point: .round(2) and the :.2f formats.
Scale == 100

NA == ""
NaN == <<>>
NaT == <<>>
None == [none |-> TRUE]


\* The columns of the CSV file, by the kind of cell they hold.
TextCols == {"Customer_Name", "Customer_Category", "City", "Store_Type", "Product",
             "Payment_Method", "Discount_Applied", "Promotion", "Season"}
NumCols == {"Total_Cost", "Total_Items"}
CsvCols == TextCols \cup NumCols \cup {"Date"}
DerivedCols == {"Year", "Month", "Month_Name", "DayOfWeek", "Week"}
AllCols == CsvCols \cup DerivedCols

\* The columns whose cells are strings, and the null cell of a column.
StringCols == TextCols \cup {"Month_Name", "DayOfWeek"}
NullOf(col) == IF col \in StringCols THEN NA ELSE NaN
IsNull(r, col) == r[col] = NullOf(col)

SeqToSet(s) == {s[i] : i \in 1..Len(s)}
HasNull(rows, col) == \E i \in 1..Len(rows) : IsNull(rows[i], col)
AllNull(rows, col) == \A i \in 1..Len(rows) : IsNull(rows[i], col)

(***************************************************************************)
(* Calendar features of a date (Series.dt.year, .month, strftime('%B'),    *)
(* day_name(), isocalendar().week).                                        *)
(***************************************************************************)
MonthNames == <<"January", "February", "March", "April", "May", "June", "July",
                "August", "September", "October", "November", "December">>
DayNames == <<"Monday", "Tuesday", "Wednesday", "Thursday", "Friday", "Saturday",
              "Sunday">>
IsLeap(y) == (y % 4 = 0 /\ y % 100 # 0) \/ y % 400 = 0
DaysBeforeMonth == <<0, 31, 59, 90, 120, 151, 181, 212, 243, 273, 304, 334>>
DayOfYear(d) == DaysBeforeMonth[d[2]] + d[3] + (IF d[2] > 2 /\ IsLeap(d[1]) THEN 1 ELSE 0)
\* 1 = Monday .. 7 = Sunday
IsoWeekday(d) ==
    LET y == IF d[2] < 3 THEN d[1] - 1 ELSE d[1]
        t == <<0, 3, 2, 5, 0, 3, 5, 1, 4, 6, 2, 4>>
        w == (y + (y \div 4) - (y \div 100) + (y \div 400) + t[d[2]] + d[3]) % 7
    IN  IF w = 0 THEN 7 ELSE w
Dec31Weekday(y) == (y + (y \div 4) - (y \div 100) + (y \div 400)) % 7
WeeksInYear(y) == IF Dec31Weekday(y) = 4 \/ Dec31Weekday(y - 1) = 3 THEN 53 ELSE 52
IsoWeek(d) ==
    LET w == (DayOfYear(d) - IsoWeekday(d) + 10) \div 7
    IN  IF w < 1 THEN WeeksInYear(d[1] - 1)
        ELSE IF w > WeeksInYear(d[1]) THEN 1 ELSE w

\* Lines 83-87: the five derived columns of one row.
TemporalFeatures(r) ==
    LET d == r["Date"]
        f == IF d = NaT
             THEN [Year |-> NaN, Month |-> NaN, Month_Name |-> NA, DayOfWeek |-> NA,
                   Week |-> NaN]
             ELSE [Year |-> <<d[1] * Scale>>, Month |-> <<d[2] * Scale>>,
                   Month_Name |-> MonthNames[d[2]], DayOfWeek |-> DayNames[IsoWeekday(d)],
                   Week |-> <<IsoWeek(d) * Scale>>]
    IN  [c \in AllCols |-> IF c \in DerivedCols THEN f[c] ELSE r[c]]

(***************************************************************************)
(* pd.read_csv: the dtype of each column is inferred from its cells.  A    *)
(* column with a string in it is object, a column of numbers (NaN          *)
(* included) is float64, or int64 when whole and free of NaN; a column of  *)
(* empty fields only is float64, and every column of a table without rows  *)
(* is object.                                                              *)
(***************************************************************************)
CsvDtype(rows, col) ==
    IF Len(rows) = 0 THEN "object"
    ELSE IF col \in TextCols \cup {"Date"}
         THEN IF AllNull(rows, col) THEN "float64" ELSE "object"
         ELSE IF HasNull(rows, col) THEN "float64" ELSE "int64"

read_csv(rows) == [rows |-> rows, dtypes |-> [c \in CsvCols |-> CsvDtype(rows, c)]]

\* Lines 80-87: the dtypes after the date conversion and the derived columns.
TemporalDtype(frame, col) ==
    CASE col = "Date" -> "datetime64[ns]"
      [] col \in {"Year", "Month"} ->
            IF HasNull(frame.rows, "Date") THEN "float64" ELSE "int32"
      [] col \in {"Month_Name", "DayOfWeek"} -> "object"
      [] col = "Week" -> "UInt32"
      [] OTHER -> frame.dtypes[col]

extract_temporal(frame) ==
    [rows |-> [i \in 1..Len(frame.rows) |-> TemporalFeatures(frame.rows[i])],
     dtypes |-> [c \in AllCols |-> TemporalDtype(frame, c)]]

(***************************************************************************)
(* DataFrame.drop_duplicates(): keeps the first of the rows that are equal *)
(* in every column, NaN being equal to NaN.                                *)
(***************************************************************************)
RECURSIVE DropDupRows(_)
DropDupRows(rows) ==
    IF rows = <<>> THEN <<>>
    ELSE LET init == DropDupRows(SubSeq(rows, 1, Len(rows) - 1))
             last == rows[Len(rows)]
         IN  IF last \in SeqToSet(init) THEN init ELSE Append(init, last)

drop_duplicates(frame) == [frame EXCEPT !.rows = DropDupRows(frame.rows)]

(***************************************************************************)
(* Series.median(): NaN cells are skipped; the middle value of the sorted  *)
(* values, or the mean of the two middle values; NaN when none is left.    *)
(***************************************************************************)
NonNull(rows, col) == SelectSeq(rows, LAMBDA r : ~IsNull(r, col))

RECURSIVE SortAsc(_)
SortAsc(vals) ==
    IF vals = <<>> THEN <<>>
    ELSE LET m == CHOOSE i \in 1..Len(vals) : \A j \in 1..Len(vals) : vals[i] <= vals[j]
         IN  <<vals[m]>> \o SortAsc(SubSeq(vals, 1, m - 1) \o SubSeq(vals, m + 1, Len(vals)))

\* The numbers of a numeric column, NaN cells skipped, in row order.
Values(rows, col) == [i \in 1..Len(NonNull(rows, col)) |-> NonNull(rows, col)[i][col][1]]

median(rows, col) ==
    LET s == SortAsc(Values(rows, col))
        n == Len(s)
    IN  IF n = 0 THEN NaN
        ELSE IF n % 2 = 1 THEN <<s[(n + 1) \div 2]>>
        ELSE <<(s[n \div 2] + s[n \div 2 + 1]) \div 2>>

\* Series.fillna(value, inplace=True) on one cell of column col.
fillna(r, col, value) == IF IsNull(r, col) THEN value ELSE r[col]

select_dtypes(frame, include) == {c \in DOMAIN frame.dtypes : frame.dtypes[c] \in include}

\* Lines 98-101: every object column with a null in it is filled with 'Unknown'.
fill_categorical(frame) ==
    LET categorical_cols == select_dtypes(frame, {"object"})
    IN  [frame EXCEPT !.rows = [i \in 1..Len(frame.rows) |->
            [c \in AllCols |->
                IF c \in categorical_cols /\ HasNull(frame.rows, c)
                THEN fillna(frame.rows[i], c, "Unknown") ELSE frame.rows[i][c]]]]

\* fill_numeric with the rounded mean of the column in place of its median.
fill_numeric_with_mean(frame) ==
    LET numeric_cols == select_dtypes(frame, {"float64", "int64"})
        n(c) == Len(NonNull(frame.rows, c))
        total(c) == LET v == [i \in 1..n(c) |-> NonNull(frame.rows, c)[i][c][1]]
                        add[k \in 0..n(c)] == IF k = 0 THEN 0 ELSE add[k - 1] + v[k]
                    IN  add[n(c)]
    IN  [frame EXCEPT !.rows = [i \in 1..Len(frame.rows) |->
            [c \in AllCols |->
                IF c \in numeric_cols /\ IsNull(frame.rows[i], c) /\ n(c) > 0
                THEN <<(2 * total(c) + n(c)) \div (2 * n(c))>>
                ELSE frame.rows[i][c]]]]

\* Lines 103-106: every float64/int64 column with a null in it is filled with its
\* median; the median of a column of NaN only is NaN, and filling with NaN changes
\* nothing.
fill_numeric(frame) ==
    LET numeric_cols == select_dtypes(frame, {"float64", "int64"})
    IN  [frame EXCEPT !.rows = [i \in 1..Len(frame.rows) |->
            [c \in AllCols |->
                IF c \in numeric_cols /\ HasNull(frame.rows, c)
                      /\ median(frame.rows, c) # NaN
                THEN fillna(frame.rows[i], c, median(frame.rows, c))
                ELSE frame.rows[i][c]]]]

\* Lines 78-112 of load_and_prepare_data, for a file that exists.
prepare(rows) == fill_numeric(fill_categorical(drop_duplicates(extract_temporal(read_csv(rows)))))

(***************************************************************************)
(* Arithmetic on fixed-point numbers.                                      *)
(***************************************************************************)
RECURSIVE SumSeq(_)
SumSeq(vals) == IF vals = <<>> THEN 0 ELSE vals[1] + SumSeq(Tail(vals))

\* Series.sum(), .count(), .nunique(): NaN cells are skipped.
sum(rows, col) == SumSeq(Values(rows, col))
count(rows, col) == Len(NonNull(rows, col))
nunique(rows, col) == Cardinality({rows[i][col] : i \in 1..Len(rows)} \ {NullOf(col)})

\* num / den rounded to a whole number, halves to the even neighbour (numpy.round).
RoundHalfEven(num, den) ==
    LET q == num \div den
        r == num % den
    IN  IF 2 * r < den THEN q
        ELSE IF 2 * r > den THEN q + 1
        ELSE IF q % 2 = 0 THEN q ELSE q + 1

\* mean_round2 cutting the mean off after two decimals.
mean_floor2(rows, col) ==
    IF count(rows, col) = 0 THEN NaN ELSE <<sum(rows, col) \div count(rows, col)>>

\* Series.mean().round(2) and Series.median().round(2), as numeric cells.
mean_round2(rows, col) ==
    IF count(rows, col) = 0 THEN NaN
    ELSE <<RoundHalfEven(sum(rows, col), count(rows, col))>>
median_round2(rows, col) == median(rows, col)

RECURSIVE Gcd(_, _)
Gcd(a, b) == IF b = 0 THEN a ELSE Gcd(b, a % b)
Abs(x) == IF x < 0 THEN -x ELSE x

\* An unrounded float: a fraction in lowest terms, nan, inf or -inf.
Frac(n, d) ==
    LET g == Gcd(Abs(n), Abs(d))
        sgn == IF d < 0 THEN -1 ELSE 1
    IN  [kind |-> "num", num |-> sgn * (n \div g), den |-> sgn * (d \div g)]
FNaN == [kind |-> "nan", num |-> 0, den |-> 0]
FInf == [kind |-> "inf", num |-> 1, den |-> 0]
FNegInf == [kind |-> "inf", num |-> -1, den |-> 0]

\* Series.mean(), unrounded: NaN for no value at all.
mean(rows, col) ==
    IF count(rows, col) = 0 THEN FNaN ELSE Frac(sum(rows, col), count(rows, col))

\* pct_diff dividing by a.
pct_diff_over_a(a, b) ==
    IF a.kind = "nan" \/ b.kind = "nan" THEN FNaN
    ELSE IF a.num = 0
         THEN IF b.num < 0 THEN FInf ELSE IF b.num > 0 THEN FNegInf ELSE FNaN
    ELSE Frac((a.num * b.den - b.num * a.den) * 100, b.den * a.num)

\* ((a - b) / b) * 100 in float64: a division by zero gives inf or nan, never an error.
pct_diff(a, b) ==
    IF a.kind = "nan" \/ b.kind = "nan" THEN FNaN
    ELSE IF a.kind = "inf" \/ b.kind = "inf" THEN FNaN
    ELSE IF b.num = 0
         THEN IF a.num > 0 THEN FInf ELSE IF a.num < 0 THEN FNegInf ELSE FNaN
    ELSE Frac((a.num * b.den - b.num * a.den) * 100, a.den * b.num)

\* x < 0 in float64: false for nan.
FNegative(x) == x.kind # "nan" /\ x.num < 0

(***************************************************************************)
(* DataFrame.groupby(key).agg(...): one row per key value observed, rows   *)
(* with a null key dropped, in ascending order of the key.                 *)
(***************************************************************************)
Collation == <<"BOGO", "Flat", "Kiosk", "Mall", "No", "Premium", "Regular", "Summer",
               "Unknown", "Winter", "Yes">>
Rank(s) == CHOOSE i \in 1..Len(Collation) : Collation[i] = s
PairRank(p) == Rank(p[1]) * (Len(Collation) + 1) + Rank(p[2])

RECURSIVE SortKeys(_)
SortKeys(S) ==
    IF S = {} THEN <<>>
    ELSE LET m == CHOOSE k \in S : \A j \in S : Rank(k) <= Rank(j)
         IN  <<m>> \o SortKeys(S \ {m})

RECURSIVE SortPairs(_)
SortPairs(S) ==
    IF S = {} THEN <<>>
    ELSE LET m == CHOOSE k \in S : \A j \in S : PairRank(k) <= PairRank(j)
         IN  <<m>> \o SortPairs(S \ {m})

group_keys(rows, col) == SortKeys({rows[i][col] : i \in 1..Len(rows)} \ {NA})
partition(rows, col, k) == SelectSeq(rows, LAMBDA r : r[col] = k)

group_pairs(rows, c1, c2) ==
    SortPairs({<<r[c1], r[c2]>> : r \in SeqToSet(NonNull(NonNull(rows, c1), c2))})
partition2(rows, c1, c2, k) == SelectSeq(rows, LAMBDA r : r[c1] = k[1] /\ r[c2] = k[2])

\* Lines 197-202, 268-273: Total_Cost mean, sum, count and Total_Items mean, .round(2).
agg_cost_items(rows, col) ==
    LET keys == group_keys(rows, col)
    IN  [i \in 1..Len(keys) |->
            LET part == partition(rows, col, keys[i])
            IN  [key |-> keys[i],
                 AvgCost |-> mean_round2(part, "Total_Cost"),
                 TotalRevenue |-> <<sum(part, "Total_Cost")>>,
                 Count |-> count(part, "Total_Cost"),
                 AvgItems |-> mean_round2(part, "Total_Items")]]

\* sort_values whose result is dropped: the table stays in key order.
sort_values_dropped(table, field) == table

\* DataFrame.sort_values(field, ascending=False): descending, NaN last, rows of equal
\* value in their former order.
Before(x, y) == x # NaN /\ (y = NaN \/ x[1] > y[1])
RECURSIVE sort_values_desc(_, _)
sort_values_desc(table, field) ==
    IF table = <<>> THEN <<>>
    ELSE LET n == Len(table)
             top(i) == \A j \in 1..n : ~Before(table[j][field], table[i][field])
             m == CHOOSE i \in 1..n : top(i) /\ \A j \in 1..(i - 1) : ~top(j)
         IN  <<table[m]>> \o
             sort_values_desc(SubSeq(table, 1, m - 1) \o SubSeq(table, m + 1, n), field)

\* Series.idxmax() / idxmin(): the key of the first row holding the largest (smallest)
\* value, NaN skipped.  Of an empty column it raises ValueError; of a column of NaN
\* only it returns NaN, which .loc[] then rejects with KeyError.
HasValue(table, field) == \E i \in 1..Len(table) : table[i][field] # NaN
\* idxmax as .index[0]: the key of the first row.
idx_first(table, field) == IF ~HasValue(table, field) THEN NA ELSE table[1].key
idxmax(table, field) ==
    IF ~HasValue(table, field) THEN NA
    ELSE LET best(i) == table[i][field] # NaN /\
                        \A j \in 1..Len(table) : ~Before(table[j][field], table[i][field])
         IN  table[CHOOSE i \in 1..Len(table) : best(i) /\ \A j \in 1..(i - 1) : ~best(j)].key
idxmin(table, field) ==
    IF ~HasValue(table, field) THEN NA
    ELSE LET best(i) == table[i][field] # NaN /\
                        \A j \in 1..Len(table) :
                            table[j][field] = NaN \/ table[j][field][1] >= table[i][field][1]
         IN  table[CHOOSE i \in 1..Len(table) : best(i) /\ \A j \in 1..(i - 1) : ~best(j)].key
loc(table, k, field) == table[CHOOSE i \in 1..Len(table) : table[i].key = k][field]

(***************************************************************************)
(* Output.  Every print and every saved image is an item [tag, val] of     *)
(* out.  A function runs as a list of steps; a step that raises ends the   *)
(* run, and what the earlier steps printed stays printed.                  *)
(***************************************************************************)
P(tag, val) == [tag |-> tag, val |-> val]
Step(raises, prints) == [raises |-> raises, prints |-> prints]

RECURSIVE RunSteps(_)
RunSteps(steps) ==
    IF steps = <<>> THEN [raised |-> FALSE, printed |-> <<>>]
    ELSE IF steps[1].raises THEN [raised |-> TRUE, printed |-> <<>>]
    ELSE LET rest == RunSteps(Tail(steps))
         IN  [raised |-> rest.raised, printed |-> steps[1].prints \o rest.printed]

Tags(o) == {o[i].tag : i \in 1..Len(o)}
Printed(o, tag) == o[CHOOSE i \in 1..Len(o) : o[i].tag = tag].val

(***************************************************************************)
(* main(), lines 588-599, with load_and_prepare_data, lines 46-112.        *)
(***************************************************************************)
\* duplicates with initial_rows taken after drop_duplicates.
duplicates_counted_late(raw) == Len(drop_duplicates(raw).rows) - Len(drop_duplicates(raw).rows)

\* Lines 92-94: initial_rows - len(df) around drop_duplicates.
duplicates(raw) == Len(raw.rows) - Len(drop_duplicates(raw).rows)

load_and_prepare_data_steps ==
    <<Step(FALSE, <<P("TASK 1: DATA PREPARATION", TRUE)>>)>> \o
    IF ~file.exists
    THEN <<Step(FALSE, <<P("Error: File not found", TRUE)>>)>>
    ELSE LET raw == extract_temporal(read_csv(file.rows))
         IN  <<Step(FALSE, <<P("Dataset loaded successfully", Len(file.rows)),
                             P("Temporal features extracted", TRUE),
                             P("Duplicates removed", duplicates(raw)),
                             P("Data cleaning completed", Len(prepare(file.rows).rows))>>)>>

load_and_prepare_data == IF file.exists THEN prepare(file.rows) ELSE None

\* main without the test of line 598.
AfterLoad_unchecked(frame) == "basic_exploration"

\* Line 598: main returns when there is no dataset.
AfterLoad(frame) == IF frame = None THEN "done" ELSE "basic_exploration"

Load ==
    /\ pc = "main"
    /\ df' = load_and_prepare_data
    /\ out' = <<P("banner", TRUE)>> \o RunSteps(load_and_prepare_data_steps).printed
    /\ pc' = AfterLoad(load_and_prepare_data)
    /\ UNCHANGED library_vars
    /\ UNCHANGED <<file, exploration_results, spending_by_category, items_by_store,
                   discount_diff, promotion_analysis, season_analysis>>

(***************************************************************************)
(* basic_exploration, lines 118-181.                                       *)
(***************************************************************************)
\* Series.value_counts().index[0] and .iloc[0]: the most frequent value, the first
\* encountered among equals; IndexError when the column holds no value.
ValueCount(rows, col, v) == Len(partition(rows, col, v))
top_value(rows, col) ==
    LET nn == NonNull(rows, col)
        best(i) == \A j \in 1..Len(nn) :
                       ValueCount(nn, col, nn[j][col]) <= ValueCount(nn, col, nn[i][col])
    IN  nn[CHOOSE i \in 1..Len(nn) : best(i) /\ \A j \in 1..(i - 1) : ~best(j)][col]

(***************************************************************************)
(* Lines 138-146: the products.  The text of a Product cell is a sequence  *)
(* of words, spaces and commas; str.split(',') cuts it at the commas and   *)
(* str.strip() takes the spaces off both ends of a piece.  An item is what *)
(* is left of a piece: << >> for an empty one.                             *)
(***************************************************************************)
Text(s) ==
    CASE s = "Milk" -> <<"Milk">>
      [] s = "Bread, Milk" -> <<"Bread", ",", " ", "Milk">>
      [] s = "Eggs,Tea , Jam" -> <<"Eggs", ",", "Tea", " ", ",", " ", "Jam">>
      [] s = "Oil,Rice,Salt" -> <<"Oil", ",", "Rice", ",", "Salt">>
      [] s = " Ice Cream ,Milk,Tea" ->
            <<" ", "Ice", " ", "Cream", " ", ",", "Milk", ",", "Tea">>
      [] s = "Unknown" -> <<"Unknown">>

RECURSIVE split(_, _)
split(text, sep) ==
    IF \A i \in 1..Len(text) : text[i] # sep THEN <<text>>
    ELSE LET i == CHOOSE j \in 1..Len(text) :
                      text[j] = sep /\ \A k \in 1..(j - 1) : text[k] # sep
         IN  <<SubSeq(text, 1, i - 1)>> \o split(SubSeq(text, i + 1, Len(text)), sep)

RECURSIVE lstrip(_)
lstrip(text) == IF text # <<>> /\ text[1] = " " THEN lstrip(Tail(text)) ELSE text
RECURSIVE rstrip(_)
rstrip(text) ==
    IF text # <<>> /\ text[Len(text)] = " " THEN rstrip(SubSeq(text, 1, Len(text) - 1))
    ELSE text
strip(text) == rstrip(lstrip(text))

\* Lines 138-142: the items of every cell that is a str, in order.
RECURSIVE products_list(_)
products_list(rows) ==
    IF rows = <<>> THEN <<>>
    ELSE LET cell == rows[1]["Product"]
             pieces == split(Text(cell), ",")
             items == [i \in 1..Len(pieces) |-> strip(pieces[i])]
         IN  (IF cell = NA THEN <<>> ELSE items) \o products_list(Tail(rows))

\* collections.Counter: one entry per value, in the order the values are first met.
RECURSIVE Counter(_)
Counter(list) ==
    IF list = <<>> THEN <<>>
    ELSE LET init == Counter(SubSeq(list, 1, Len(list) - 1))
             x == list[Len(list)]
         IN  IF \E i \in 1..Len(init) : init[i].key = x
             THEN [i \in 1..Len(init) |->
                      IF init[i].key = x THEN [key |-> x, count |-> init[i].count + 1]
                      ELSE init[i]]
             ELSE Append(init, [key |-> x, count |-> 1])

\* A stable sort by falling count: entries of equal count keep their order.
RECURSIVE sort_counts(_)
sort_counts(counts) ==
    IF counts = <<>> THEN <<>>
    ELSE LET n == Len(counts)
             top(i) == \A j \in 1..n : counts[j].count <= counts[i].count
             m == CHOOSE i \in 1..n : top(i) /\ \A j \in 1..(i - 1) : ~top(j)
         IN  <<counts[m]>> \o
             sort_counts(SubSeq(counts, 1, m - 1) \o SubSeq(counts, m + 1, n))

head(s, n) == SubSeq(s, 1, IF Len(s) < n THEN Len(s) ELSE n)
Reverse(s) == [i \in 1..Len(s) |-> s[Len(s) + 1 - i]]

\* nlargest with keep='last': among equal counts the entry met last comes first.
nlargest_keep_last(counts, n) == head(sort_counts(Reverse(counts)), n)

\* Series.nlargest(n), keep='first': the n largest counts, largest first, and among
\* equal counts the entry met first.
nlargest(counts, n) == head(sort_counts(counts), n)

product_counts(frame) == Counter(products_list(frame.rows))
top_5_products(frame) == nlargest(product_counts(frame), 5)

(***************************************************************************)
(* Lines 155-158: the cities.  Series.value_counts() counts the cells that *)
(* are not null and orders the values by falling count, equal counts in    *)
(* the order the values are first met.                                     *)
(***************************************************************************)
value_counts(rows, col) ==
    LET nn == NonNull(rows, col)
    IN  sort_counts(Counter([i \in 1..Len(nn) |-> nn[i][col]]))

city_transactions(frame) == head(value_counts(frame.rows, "City"), 10)

\* pct without the factor 100: a fraction of the rows, not a percentage.
pct_fraction(cnt, total_transactions) == Frac(cnt, total_transactions)

\* Line 157: (count / total_transactions) * 100.
pct(cnt, total_transactions) == Frac(cnt * 100, total_transactions)

\* Line 158: one printed line per city; shown is pct in tenths, as {pct:>5.1f} prints it.
city_lines(frame) ==
    LET t == city_transactions(frame)
        total_transactions == Len(frame.rows)
    IN  [i \in 1..Len(t) |->
            [key |-> t[i].key, count |-> t[i].count,
             pct |-> pct(t[i].count, total_transactions),
             shown |-> RoundHalfEven(t[i].count * 1000, total_transactions)]]

basic_exploration_steps(frame) ==
    LET total_transactions == Len(frame.rows)
        unique_customers == nunique(frame.rows, "Customer_Name")
    IN  <<Step(FALSE, <<P("TASK 2: BASIC EXPLORATION", TRUE),
                        P("Total Transactions", total_transactions),
                        P("Unique Customers", unique_customers)>>),
          \* line 132: total_transactions / unique_customers, ZeroDivisionError
          Step(unique_customers = 0, <<P("Avg Transactions per Customer", TRUE)>>),
          \* line 145: nlargest of an empty object Series, TypeError
          Step(product_counts(frame) = <<>>,
               <<P("TOP 5 MOST COMMON PRODUCTS", top_5_products(frame)),
                 P("Total unique products", Len(product_counts(frame)))>>),
          Step(FALSE, <<P("TOP 10 CITIES BY TRANSACTION COUNT", city_lines(frame)),
                        P("REVENUE STATISTICS", sum(frame.rows, "Total_Cost")),
                        P("ITEM STATISTICS", sum(frame.rows, "Total_Items"))>>)>>

basic_exploration_result(frame) ==
    [total_transactions |-> Len(frame.rows),
     unique_customers |-> nunique(frame.rows, "Customer_Name"),
     product_counts |-> product_counts(frame),
     city_transactions |-> city_transactions(frame)]

Explore ==
    /\ pc = "basic_exploration"
    /\ LET run == RunSteps(basic_exploration_steps(df))
       IN  /\ out' = out \o run.printed
           /\ IF run.raised
              THEN pc' = "raised" /\ UNCHANGED exploration_results
              ELSE /\ pc' = "customer_behaviour_analysis"
                   /\ exploration_results' = basic_exploration_result(df)
    /\ UNCHANGED library_vars
    /\ UNCHANGED <<file, df, spending_by_category, items_by_store, discount_diff,
                   promotion_analysis, season_analysis>>

(***************************************************************************)
(* customer_behaviour_analysis, lines 187-232.                             *)
(***************************************************************************)
spending_by_category_table(frame) ==
    sort_values_desc(agg_cost_items(frame.rows, "Customer_Category"), "AvgCost")

\* Lines 224-229: not sorted, so in ascending order of Store_Type.
items_by_store_table(frame) ==
    LET keys == group_keys(frame.rows, "Store_Type")
    IN  [i \in 1..Len(keys) |->
            LET part == partition(frame.rows, "Store_Type", keys[i])
            IN  [key |-> keys[i],
                 AvgItems |-> mean_round2(part, "Total_Items"),
                 MedianItems |-> median_round2(part, "Total_Items"),
                 TotalItems |-> <<sum(part, "Total_Items")>>,
                 Transactions |-> count(part, "Total_Items"),
                 AvgCost |-> mean_round2(part, "Total_Cost"),
                 TotalRevenue |-> <<sum(part, "Total_Cost")>>]]

customer_behaviour_steps(frame) ==
    LET t == spending_by_category_table(frame)
    IN  <<Step(FALSE, <<P("TASK 3: CUSTOMER BEHAVIOUR ANALYSIS", TRUE),
                        P("spending_by_category", t)>>),
          \* lines 206-207: idxmax of an empty column, or .loc[nan]
          Step(~HasValue(t, "AvgCost"),
               IF ~HasValue(t, "AvgCost") THEN <<>>
               ELSE <<P("Highest spending category",
                        <<idxmax(t, "AvgCost"), loc(t, idxmax(t, "AvgCost"), "AvgCost")>>)>>),
          Step(FALSE, <<P("payment_preference", TRUE),
                        P("items_by_store", items_by_store_table(frame))>>)>>

Customer ==
    /\ pc = "customer_behaviour_analysis"
    /\ LET run == RunSteps(customer_behaviour_steps(df))
       IN  /\ out' = out \o run.printed
           /\ IF run.raised
              THEN pc' = "raised" /\ UNCHANGED <<spending_by_category, items_by_store>>
              ELSE /\ pc' = "promotion_discount_analysis"
                   /\ spending_by_category' = spending_by_category_table(df)
                   /\ items_by_store' = items_by_store_table(df)
    /\ UNCHANGED library_vars
    /\ UNCHANGED <<file, df, exploration_results, discount_diff, promotion_analysis,
                   season_analysis>>

(***************************************************************************)
(* promotion_discount_analysis, lines 238-280.                             *)
(***************************************************************************)
\* Lines 248-253: not sorted, so in ascending order of Discount_Applied.
discount_analysis_table(frame) ==
    LET keys == group_keys(frame.rows, "Discount_Applied")
    IN  [i \in 1..Len(keys) |->
            LET part == partition(frame.rows, "Discount_Applied", keys[i])
            IN  [key |-> keys[i],
                 AvgCost |-> mean_round2(part, "Total_Cost"),
                 MedianCost |-> median_round2(part, "Total_Cost"),
                 TotalRevenue |-> <<sum(part, "Total_Cost")>>,
                 Count |-> count(part, "Total_Cost"),
                 AvgItems |-> mean_round2(part, "Total_Items")]]

\* Lines 256-258.
with_discount(frame) == mean(partition(frame.rows, "Discount_Applied", "Yes"), "Total_Cost")
without_discount(frame) == mean(partition(frame.rows, "Discount_Applied", "No"), "Total_Cost")
discount_diff_value(frame) == pct_diff(with_discount(frame), without_discount(frame))

promotion_analysis_table(frame) ==
    sort_values_desc(agg_cost_items(frame.rows, "Promotion"), "AvgCost")

promotion_discount_steps(frame) ==
    LET t == promotion_analysis_table(frame)
    IN  <<Step(FALSE, <<P("TASK 4: PROMOTION & DISCOUNT IMPACT ANALYSIS", TRUE),
                        P("discount_analysis", discount_analysis_table(frame)),
                        P("With Discount", with_discount(frame)),
                        P("Without Discount", without_discount(frame)),
                        P("Difference", discount_diff_value(frame)),
                        P("promotion_analysis", t)>>),
          \* line 277: idxmax of an empty column raises; of NaN only it returns NaN
          Step(t = <<>>, <<P("Most effective promotion type", idxmax(t, "AvgCost"))>>)>>

Promotion ==
    /\ pc = "promotion_discount_analysis"
    /\ LET run == RunSteps(promotion_discount_steps(df))
       IN  /\ out' = out \o run.printed
           /\ IF run.raised
              THEN pc' = "raised" /\ UNCHANGED <<discount_diff, promotion_analysis>>
              ELSE /\ pc' = "seasonality_analysis"
                   /\ discount_diff' = discount_diff_value(df)
                   /\ promotion_analysis' = promotion_analysis_table(df)
    /\ UNCHANGED library_vars
    /\ UNCHANGED <<file, df, exploration_results, spending_by_category, items_by_store,
                   season_analysis>>

(***************************************************************************)
(* seasonality_analysis, lines 286-331.                                    *)
(***************************************************************************)
season_analysis_table(frame) ==
    sort_values_desc(agg_cost_items(frame.rows, "Season"), "TotalRevenue")

\* Lines 312-316: one row per (Season, Store_Type) observed, in ascending key order.
season_store_table(frame) ==
    LET keys == group_pairs(frame.rows, "Season", "Store_Type")
    IN  [i \in 1..Len(keys) |->
            LET part == partition2(frame.rows, "Season", "Store_Type", keys[i])
            IN  [key |-> keys[i],
                 TotalRevenue |-> <<sum(part, "Total_Cost")>>,
                 AvgCost |-> mean_round2(part, "Total_Cost"),
                 Count |-> count(part, "Total_Cost")]]

seasonality_steps(frame) ==
    LET t == season_analysis_table(frame)
    IN  <<Step(FALSE, <<P("TASK 5: SEASONALITY TRENDS ANALYSIS", TRUE),
                        P("season_analysis", t)>>),
          \* line 305: idxmax of an empty column
          Step(t = <<>>, <<P("Highest revenue season", idxmax(t, "TotalRevenue"))>>),
          Step(FALSE, <<P("season_store_analysis", season_store_table(frame)),
                        P("monthly_revenue", TRUE)>>)>>

Season ==
    /\ pc = "seasonality_analysis"
    /\ LET run == RunSteps(seasonality_steps(df))
       IN  /\ out' = out \o run.printed
           /\ IF run.raised
              THEN pc' = "raised" /\ UNCHANGED season_analysis
              ELSE /\ pc' = "create_visualizations"
                   /\ season_analysis' = season_analysis_table(df)
    /\ UNCHANGED library_vars
    /\ UNCHANGED <<file, df, exploration_results, spending_by_category, items_by_store,
                   discount_diff, promotion_analysis>>

(***************************************************************************)
(* create_visualizations, lines 337-447: the plotting library is outside   *)
(* the model; the two images it saves are output.                          *)
(***************************************************************************)
Visualize ==
    /\ pc = "create_visualizations"
    /\ out' = out \o <<P("TASK 6: CREATING VISUALIZATIONS", TRUE),
                       P("savefig", "Retail_Dashboard.png"),
                       P("savefig", "Additional_Insights.png")>>
    /\ pc' = "generate_insights_summary"
    /\ UNCHANGED library_vars
    /\ UNCHANGED <<file, df, exploration_results, spending_by_category, items_by_store,
                   discount_diff, promotion_analysis, season_analysis>>

(***************************************************************************)
(* generate_insights_summary, lines 453-526.                               *)
(***************************************************************************)
KeyAndValue(table, k, field) == <<k, loc(table, k, field)>>

insights_steps(frame, spending, items, diff, promotion, season) ==
    <<Step(FALSE, <<P("TASK 7: KEY INSIGHTS & RECOMMENDATIONS", TRUE)>>),
      \* lines 462-471
      Step(~HasValue(spending, "AvgCost"),
           IF ~HasValue(spending, "AvgCost") THEN <<>>
           ELSE <<P("customers spend the most",
                    KeyAndValue(spending, idxmax(spending, "AvgCost"), "AvgCost")),
                  P("Total transactions analyzed", Len(frame.rows)),
                  P("Unique customers in dataset", nunique(frame.rows, "Customer_Name")),
                  P("Overall average transaction value", mean(frame.rows, "Total_Cost"))>>),
      \* lines 476-484
      Step(~HasValue(promotion, "AvgCost"),
           IF ~HasValue(promotion, "AvgCost") THEN <<>>
           ELSE <<P("Most effective promotion",
                    KeyAndValue(promotion, idxmax(promotion, "AvgCost"), "AvgCost")),
                  P("Discount impact", diff),
                  IF FNegative(diff)
                  THEN P("Discounts reduce average transaction value", TRUE)
                  ELSE P("Discounts increase average transaction value", TRUE)>>),
      \* lines 489-498
      Step(~HasValue(season, "TotalRevenue"),
           IF ~HasValue(season, "TotalRevenue") THEN <<>>
           ELSE LET highest == KeyAndValue(season, idxmax(season, "TotalRevenue"),
                                           "TotalRevenue")
                    lowest == KeyAndValue(season, idxmin(season, "TotalRevenue"),
                                          "TotalRevenue")
                IN  <<P("Peak season", highest),
                      P("Lowest season", lowest),
                      P("Seasonal variance",
                        pct_diff(Frac(highest[2][1], 1), Frac(lowest[2][1], 1)))>>),
      \* lines 503-507
      Step(~HasValue(items, "AvgItems"),
           IF ~HasValue(items, "AvgItems") THEN <<>>
           ELSE <<P("Highest basket size",
                    KeyAndValue(items, idxmax(items, "AvgItems"), "AvgItems")),
                  P("Total store types", nunique(frame.rows, "Store_Type"))>>),
      \* lines 512-516
      Step(AllNull(frame.rows, "Payment_Method"),
           IF AllNull(frame.rows, "Payment_Method") THEN <<>>
           ELSE <<P("Most used payment method", top_value(frame.rows, "Payment_Method")),
                  P("Total payment methods", nunique(frame.rows, "Payment_Method"))>>),
      \* lines 521-526
      Step(AllNull(frame.rows, "City"),
           IF AllNull(frame.rows, "City") THEN <<>>
           ELSE <<P("Leading city", top_value(frame.rows, "City")),
                  P("Total cities covered", nunique(frame.rows, "City"))>>)>>

Insights ==
    /\ pc = "generate_insights_summary"
    /\ LET run == RunSteps(insights_steps(df, spending_by_category, items_by_store,
                                          discount_diff, promotion_analysis,
                                          season_analysis))
       IN  /\ out' = out \o run.printed
           /\ pc' = IF run.raised THEN "raised" ELSE "generate_final_summary"
    /\ UNCHANGED library_vars
    /\ UNCHANGED <<file, df, exploration_results, spending_by_category, items_by_store,
                   discount_diff, promotion_analysis, season_analysis>>

(***************************************************************************)
(* generate_final_summary, lines 532-582, and the end of main, 616-623.    *)
(***************************************************************************)
Summary ==
    /\ pc = "generate_final_summary"
    /\ out' = out \o <<P("FINAL SUMMARY STATISTICS", Len(df.rows)),
                       P("ANALYSIS COMPLETE", TRUE)>>
    /\ pc' = "done"
    /\ UNCHANGED library_vars
    /\ UNCHANGED <<file, df, exploration_results, spending_by_category, items_by_store,
                   discount_diff, promotion_analysis, season_analysis>>

(***************************************************************************)
(* Lines 9-16 of the library module: its globals as the module is loaded.  *)
(***************************************************************************)
NoCall == [fn |-> "none", args |-> <<>>, returns |-> "None", raises |-> "none",
           shown |-> <<>>]
LibraryInit ==
    /\ books = <<>>
    /\ members = <<>>
    /\ borrow_log = <<>>
    /\ member_borrowed_books = <<>>
    /\ next_book_id = 1001
    /\ next_member_id = 20013
    /\ call = NoCall

(***************************************************************************)
(* The input.  The rows of a table agree with BaseRow outside the two      *)
(* columns of one scenario, which take every combination of the scenario's *)
(* values; a table has up to the scenario's n rows.  Costs are not         *)
(* negative.                                                               *)
(***************************************************************************)
BaseRow ==
    [Customer_Name |-> "Asha", Customer_Category |-> "Regular", City |-> "Pune",
     Store_Type |-> "Mall", Date |-> <<2024, 1, 15>>, Total_Cost |-> <<1 * Scale>>,
     Total_Items |-> <<1 * Scale>>, Product |-> "Milk", Payment_Method |-> "Cash",
     Discount_Applied |-> "No", Promotion |-> "BOGO", Season |-> "Winter"]

Num(S) == {<<n * Scale>> : n \in S}

Scenarios ==
    <<[c1 |-> "Total_Cost", v1 |-> {NaN} \cup Num({1, 2}),
       c2 |-> "Customer_Category", v2 |-> {NA, "Premium"}, n |-> MaxLoaderRows],
      [c1 |-> "Customer_Category", v1 |-> {NA, "Unknown", "Premium"},
       c2 |-> "Total_Cost", v2 |-> Num({1, 2}), n |-> MaxRows],
      [c1 |-> "Date", v1 |-> {NaT, <<2024, 1, 15>>, <<2023, 12, 31>>},
       c2 |-> "Total_Items", v2 |-> {NaN} \cup Num({1}), n |-> MaxRows],
      [c1 |-> "Discount_Applied", v1 |-> {"Yes", "No"},
       c2 |-> "Total_Cost", v2 |-> Num({0, 1, 2}), n |-> MaxRows],
      [c1 |-> "Season", v1 |-> {NA, "Winter", "Summer"},
       c2 |-> "Store_Type", v2 |-> {"Mall", "Kiosk"}, n |-> MaxRows],
      [c1 |-> "Store_Type", v1 |-> {"Mall", "Kiosk"},
       c2 |-> "Total_Items", v2 |-> Num({1, 2, 3}), n |-> MaxRows],
      [c1 |-> "Promotion", v1 |-> {NA, "BOGO", "Flat"},
       c2 |-> "Total_Cost", v2 |-> Num({1, 2}), n |-> MaxRows],
      [c1 |-> "Season", v1 |-> {"Winter", "Summer"},
       c2 |-> "Total_Cost", v2 |-> Num({1, 2, 3}), n |-> MaxRows],
      [c1 |-> "Payment_Method", v1 |-> {"Cash", "Card"},
       c2 |-> "City", v2 |-> {"Pune", "Delhi"}, n |-> MaxRows],
      [c1 |-> "Product", v1 |-> {NA, "Milk", "Bread, Milk", "Eggs,Tea , Jam",
                                 "Oil,Rice,Salt", " Ice Cream ,Milk,Tea"},
       c2 |-> "City", v2 |-> {"Pune"}, n |-> MaxRows]>>

\* Tables of up to MaxCityRows rows, all different in Total_Cost, over m cities taken
\* in turn forwards or backwards: more cities than the ten that are listed.
CityNames == <<"Agra", "Bhopal", "Chennai", "Delhi", "Erode", "Goa", "Hubli", "Indore",
               "Jaipur", "Kochi", "Lucknow", "Mumbai", "Nagpur">>
CityTable(k, m, backwards) ==
    [i \in 1..k |->
        [BaseRow EXCEPT !["Total_Cost"] = <<i * Scale>>,
                        !["City"] = CityNames[((IF backwards THEN k - i ELSE i - 1) % m) + 1]]]
CityTables == {CityTable(k, m, b) : k \in 1..MaxCityRows, m \in 1..MaxCityRows,
                                    b \in BOOLEAN}

RowsOf(sc) == {[BaseRow EXCEPT ![sc.c1] = a, ![sc.c2] = b] : a \in sc.v1, b \in sc.v2}
Tables(pool, n) == UNION {[1..k -> pool] : k \in 0..n}

Init ==
    /\ \/ file = [exists |-> FALSE, rows |-> <<>>]
       \/ \E k \in 1..Len(Scenarios) :
            \E t \in Tables(RowsOf(Scenarios[k]), Scenarios[k].n) : file = [exists |-> TRUE, rows |-> t]
       \/ \E t \in CityTables : file = [exists |-> TRUE, rows |-> t]
    /\ pc = "main"
    /\ df = None
    /\ out = <<>>
    /\ exploration_results = None
    /\ spending_by_category = None
    /\ items_by_store = None
    /\ discount_diff = None
    /\ promotion_analysis = None
    /\ season_analysis = None
    /\ LibraryInit

Next ==
    \/ Load
    \/ Explore
    \/ Customer
    \/ Promotion
    \/ Season
    \/ Visualize
    \/ Insights
    \/ Summary

Spec == Init /\ [][Next]_vars

(***************************************************************************)
(* Properties of the Loader.                                               *)
(***************************************************************************)
Loaded == pc # "main" /\ df # None
\* load_and_prepare_data has just returned a dataset; no later statement assigns df.
Returned == pc = "basic_exploration"

\* The rows of the file with their calendar features, and those of them that
\* drop_duplicates keeps: the rows equal to no earlier row.
RawRows == [i \in 1..Len(file.rows) |-> TemporalFeatures(file.rows[i])]
KeptIdx == {i \in 1..Len(RawRows) : \A j \in 1..(i - 1) : RawRows[j] # RawRows[i]}
KeptRows ==
    [k \in 1..Cardinality(KeptIdx) |->
        RawRows[CHOOSE i \in KeptIdx : Cardinality({j \in KeptIdx : j < i}) = k - 1]]

\* m is the median of the non-null cells of a column: the mean of the two middle
\* values (the same value twice when their number is odd).
MedianIs(rows, col, m) ==
    LET idx == {i \in 1..Len(rows) : ~IsNull(rows[i], col)}
        n == Cardinality(idx)
        v(i) == rows[i][col][1]
        kth(k, x) == /\ Cardinality({i \in idx : v(i) < x}) < k
                     /\ k <= Cardinality({i \in idx : v(i) <= x})
    IN  \E i, j \in idx : /\ kth((n + 1) \div 2, v(i))
                          /\ kth(n \div 2 + 1, v(j))
                          /\ 2 * m = v(i) + v(j)

\* C1: the dataset returned by load_and_prepare_data has no null value in any
\* numeric or categorical column (every column but Date).
C1_NoNullAfterLoad ==
    Loaded => \A i \in 1..Len(df.rows) : \A c \in AllCols \ {"Date"} : ~IsNull(df.rows[i], c)

\* C2: no two rows of the dataset returned by load_and_prepare_data are equal in
\* all fields.
C2_NoEqualRows ==
    Loaded => \A i, j \in 1..Len(df.rows) : i # j => df.rows[i] # df.rows[j]

C4_AbsentFileAborts ==
    ~file.exists =>
        /\ pc \in {"main", "done"}
        /\ df = None
        /\ pc = "done" =>
              /\ Tags(out) = {"banner", "TASK 1: DATA PREPARATION", "Error: File not found"}
              /\ exploration_results = None /\ spending_by_category = None
              /\ items_by_store = None /\ discount_diff = None
              /\ promotion_analysis = None /\ season_analysis = None

C4_Witness == ~file.exists /\ pc = "done" /\ "Error: File not found" \in Tags(out)

(***************************************************************************)
(* Properties of the Segmenter and the Reporter.  They are stated on the   *)
(* cleaned dataset df and on the tables and lines in out.  out only grows  *)
(* and df is not assigned after the Loader, so what holds of the tables    *)
(* and lines of a run that has ended, normally or by an exception, holds   *)
(* of them from the moment they are printed.                               *)
(***************************************************************************)
Ended == pc \in {"done", "raised"}

\* The rows of df with value k in column col, those of them with a number in column
\* num, and the sum of these numbers.
Part(col, k) == {i \in 1..Len(df.rows) : df.rows[i][col] = k}
Part2(c1, c2, k) == {i \in 1..Len(df.rows) : df.rows[i][c1] = k[1] /\ df.rows[i][c2] = k[2]}
WithNumber(I, num) == {i \in I : ~IsNull(df.rows[i], num)}
RECURSIVE Total(_, _)
Total(I, num) ==
    IF WithNumber(I, num) = {} THEN 0
    ELSE LET i == CHOOSE x \in WithNumber(I, num) : TRUE
         IN  df.rows[i][num][1] + Total(I \ {i}, num)

ReduceLine == "Discounts reduce average transaction value"
IncreaseLine == "Discounts increase average transaction value"

\* The aggregate tables the Segmenter prints, with their key column and the name of
\* their count column.
SingleKeyTables ==
    <<[tag |-> "spending_by_category", col |-> "Customer_Category", cnt |-> "Count",
       primary |-> "AvgCost", sorted |-> TRUE],
      [tag |-> "items_by_store", col |-> "Store_Type", cnt |-> "Transactions",
       primary |-> "AvgItems", sorted |-> FALSE],
      [tag |-> "discount_analysis", col |-> "Discount_Applied", cnt |-> "Count",
       primary |-> "AvgCost", sorted |-> FALSE],
      [tag |-> "promotion_analysis", col |-> "Promotion", cnt |-> "Count",
       primary |-> "AvgCost", sorted |-> TRUE],
      [tag |-> "season_analysis", col |-> "Season", cnt |-> "Count",
       primary |-> "TotalRevenue", sorted |-> TRUE]>>

RECURSIVE SumField(_, _)
SumField(table, field) ==
    IF table = <<>> THEN 0 ELSE table[1][field] + SumField(Tail(table), field)

\* C5: when an aggregate the Reporter consumes is empty (no row with discount
\* 'Yes', or none with 'No', or a table without rows) the run does not complete and
\* neither discount insight line is printed.
C5_DegenerateAggregateFails ==
    (Loaded /\ (\/ Part("Discount_Applied", "Yes") = {}
                \/ Part("Discount_Applied", "No") = {}
                \/ \E t \in 1..Len(SingleKeyTables) :
                      \A i \in 1..Len(df.rows) : IsNull(df.rows[i], SingleKeyTables[t].col)))
    => (pc # "done" /\ ReduceLine \notin Tags(out) /\ IncreaseLine \notin Tags(out))

\* C6: in every aggregate table printed, the counts of the groups sum to the
\* number of rows of the cleaned dataset.
C6_CountsSumToRows ==
    /\ \A t \in 1..Len(SingleKeyTables) :
          SingleKeyTables[t].tag \in Tags(out) =>
             SumField(Printed(out, SingleKeyTables[t].tag), SingleKeyTables[t].cnt)
                = Len(df.rows)
    /\ "season_store_analysis" \in Tags(out) =>
          SumField(Printed(out, "season_store_analysis"), "Count") = Len(df.rows)

\* x is the mean of the numbers of column num in the rows I, exactly.
ExactMean(x, I, num) ==
    /\ WithNumber(I, num) # {}
    /\ x # NaN
    /\ x[1] * Cardinality(WithNumber(I, num)) = Total(I, num)

\* x is that mean rounded to two decimals, and NaN when the rows hold no number.
RoundedMean(x, I, num) ==
    IF WithNumber(I, num) = {} THEN x = NaN
    ELSE /\ x # NaN
         /\ 2 * Abs(x[1] * Cardinality(WithNumber(I, num)) - Total(I, num))
               <= Cardinality(WithNumber(I, num))

\* The table has exactly one row for each key value that some row of df holds.
OneRowPerKey(table, observed) ==
    /\ {table[i].key : i \in 1..Len(table)} = observed
    /\ \A i, j \in 1..Len(table) : table[i].key = table[j].key => i = j

ObservedKeys(col) == {df.rows[i][col] : i \in 1..Len(df.rows)} \ {NA}
ObservedPairs(c1, c2) ==
    {<<df.rows[i][c1], df.rows[i][c2]>> :
        i \in {j \in 1..Len(df.rows) : ~IsNull(df.rows[j], c1) /\ ~IsNull(df.rows[j], c2)}}
CostItemTags == {"spending_by_category", "promotion_analysis", "season_analysis",
                 "discount_analysis"}

NoNullInDf == \A i \in 1..Len(df.rows) : \A c \in AllCols : ~IsNull(df.rows[i], c)

C7_WitnessPairs ==
    /\ "season_store_analysis" \in Tags(out)
    /\ \E s \in ObservedKeys("Season") : \E k \in ObservedKeys("Store_Type") :
          \A i \in 1..Len(Printed(out, "season_store_analysis")) :
             Printed(out, "season_store_analysis")[i].key # <<s, k>>

\* The rows are in descending order of a column, NaN last.
Descending(table, field) ==
    \A i, j \in 1..Len(table) :
        i < j => /\ table[i][field] = NaN => table[j][field] = NaN
                 /\ (table[i][field] # NaN /\ table[j][field] # NaN) =>
                       table[i][field][1] >= table[j][field][1]
AscendingKeys(table) == \A i, j \in 1..Len(table) : i < j => Rank(table[i].key) < Rank(table[j].key)

\* C8 as stated: each of the five tables keyed by customer category, store type,
\* discount flag, promotion and season is printed in descending order of its
\* primary aggregate.
C8_AllTablesDescending ==
    Ended => \A t \in 1..Len(SingleKeyTables) :
        SingleKeyTables[t].tag \in Tags(out) =>
            Descending(Printed(out, SingleKeyTables[t].tag), SingleKeyTables[t].primary)

\* C8 amended: the tables by customer category and by promotion are printed in
\* descending order of Avg Cost and the table by season in descending order of
\* Total Revenue; the tables by store type and by discount flag are printed in
\* ascending order of their key.
C8_SortedTablesDescending ==
    Ended => \A t \in 1..Len(SingleKeyTables) :
        SingleKeyTables[t].tag \in Tags(out) =>
            IF SingleKeyTables[t].sorted
            THEN Descending(Printed(out, SingleKeyTables[t].tag), SingleKeyTables[t].primary)
            ELSE AscendingKeys(Printed(out, SingleKeyTables[t].tag))

\* A sorted table was printed in an order that is not the order of its keys.
C8_Witness ==
    /\ "season_analysis" \in Tags(out)
    /\ LET table == Printed(out, "season_analysis")
       IN  /\ Len(table) = 2
           /\ table[1].TotalRevenue[1] > table[2].TotalRevenue[1]
           /\ Rank(table[1].key) > Rank(table[2].key)

\* k is a key of the table whose value in the column is the largest (smallest), and
\* v is that value.
IsArgmax(table, field, k, v) ==
    \E i \in 1..Len(table) :
        /\ table[i].key = k /\ table[i][field] = v /\ v # NaN
        /\ \A j \in 1..Len(table) : table[j][field] = NaN \/ table[j][field][1] <= v[1]
IsArgmin(table, field, k, v) ==
    \E i \in 1..Len(table) :
        /\ table[i].key = k /\ table[i][field] = v /\ v # NaN
        /\ \A j \in 1..Len(table) : table[j][field] = NaN \/ table[j][field][1] >= v[1]
IsArgmaxKey(table, field, k) == \E i \in 1..Len(table) : IsArgmax(table, field, k, table[i][field])

\* C9: every best, most effective, peak or highest key reported holds the largest
\* value of its aggregate column over the groups, and the lowest season the
\* smallest total revenue.
C9_ReportedKeysAreArgmax ==
    Ended =>
    /\ "Highest spending category" \in Tags(out) =>
          IsArgmax(Printed(out, "spending_by_category"), "AvgCost",
                   Printed(out, "Highest spending category")[1],
                   Printed(out, "Highest spending category")[2])
    /\ "Most effective promotion type" \in Tags(out) =>
          IsArgmaxKey(Printed(out, "promotion_analysis"), "AvgCost",
                      Printed(out, "Most effective promotion type"))
    /\ "Highest revenue season" \in Tags(out) =>
          IsArgmaxKey(Printed(out, "season_analysis"), "TotalRevenue",
                      Printed(out, "Highest revenue season"))
    /\ "customers spend the most" \in Tags(out) =>
          IsArgmax(Printed(out, "spending_by_category"), "AvgCost",
                   Printed(out, "customers spend the most")[1],
                   Printed(out, "customers spend the most")[2])
    /\ "Most effective promotion" \in Tags(out) =>
          IsArgmax(Printed(out, "promotion_analysis"), "AvgCost",
                   Printed(out, "Most effective promotion")[1],
                   Printed(out, "Most effective promotion")[2])
    /\ "Peak season" \in Tags(out) =>
          IsArgmax(Printed(out, "season_analysis"), "TotalRevenue",
                   Printed(out, "Peak season")[1], Printed(out, "Peak season")[2])
    /\ "Lowest season" \in Tags(out) =>
          IsArgmin(Printed(out, "season_analysis"), "TotalRevenue",
                   Printed(out, "Lowest season")[1], Printed(out, "Lowest season")[2])
    /\ "Highest basket size" \in Tags(out) =>
          IsArgmax(Printed(out, "items_by_store"), "AvgItems",
                   Printed(out, "Highest basket size")[1],
                   Printed(out, "Highest basket size")[2])

\* The insights were printed for a dataset whose peak and lowest season differ.
C9_Witness ==
    /\ pc = "done"
    /\ "Peak season" \in Tags(out) /\ "Lowest season" \in Tags(out)
    /\ Printed(out, "Peak season")[1] # Printed(out, "Lowest season")[1]
    /\ Printed(out, "Peak season")[2][1] > Printed(out, "Lowest season")[2][1]

ReportTag == "TASK 7: KEY INSIGHTS & RECOMMENDATIONS"

\* What main receives from the Explorer and the Segmenter for a cleaned dataset, and
\* whether the four of them return at all.
OutputsOf(frame) ==
    <<basic_exploration_result(frame), spending_by_category_table(frame),
      items_by_store_table(frame), discount_diff_value(frame),
      promotion_analysis_table(frame), season_analysis_table(frame)>>
ReachesReporter(frame) ==
    /\ ~RunSteps(basic_exploration_steps(frame)).raised
    /\ ~RunSteps(customer_behaviour_steps(frame)).raised
    /\ ~RunSteps(promotion_discount_steps(frame)).raised
    /\ ~RunSteps(seasonality_steps(frame)).raised
ReportOf(frame) ==
    RunSteps(insights_steps(frame, spending_by_category_table(frame),
                            items_by_store_table(frame), discount_diff_value(frame),
                            promotion_analysis_table(frame),
                            season_analysis_table(frame))).printed

\* The report of this run: what was printed from the Reporter's heading up to the
\* heading of the final summary.
ReportPrinted ==
    LET first == CHOOSE i \in 1..Len(out) : out[i].tag = ReportTag
        after == {i \in 1..Len(out) : out[i].tag = "FINAL SUMMARY STATISTICS"}
        last == IF after = {} THEN Len(out) ELSE (CHOOSE i \in after : TRUE) - 1
    IN  SubSeq(out, first, last)

\* The input tables that differ from the one of this run in one row.
PoolOf(rows) ==
    UNION {RowsOf(Scenarios[k]) :
              k \in {j \in 1..Len(Scenarios) :
                        \A i \in 1..Len(rows) : rows[i] \in RowsOf(Scenarios[j])}}
OneRowChanged(rows) == {[rows EXCEPT ![i] = r] : i \in 1..Len(rows), r \in PoolOf(rows)}

\* C11: the report is determined by the Explorer and Segmenter outputs: a cleaned
\* dataset for which main receives the same outputs as in this run gets the report of
\* this run.
C11_ReportDeterminedByOutputs ==
    (Ended /\ ReportTag \in Tags(out)) =>
        \A t \in OneRowChanged(file.rows) :
            LET other == prepare(t)
            IN  (/\ ReachesReporter(other)
                 /\ OutputsOf(other) = <<exploration_results, spending_by_category,
                                         items_by_store, discount_diff,
                                         promotion_analysis, season_analysis>>)
                => ReportOf(other) = ReportPrinted

(***************************************************************************)
(* The products, stated on the cells of df.  A piece of a cell lies        *)
(* between two cuts, a cut being a comma or an end of the text; its item   *)
(* runs from its first to its last symbol that is not a space.             *)
(***************************************************************************)
Cuts(text) == {0, Len(text) + 1} \cup {i \in 1..Len(text) : text[i] = ","}
Pieces(text) ==
    {<<a, b>> \in Cuts(text) \X Cuts(text) :
        a < b /\ \A c \in Cuts(text) : ~(a < c /\ c < b)}
ItemOf(text, piece) ==
    LET inside == {i \in (piece[1] + 1)..(piece[2] - 1) : text[i] # " "}
    IN  IF inside = {} THEN <<>>
        ELSE LET lo == CHOOSE i \in inside : \A j \in inside : i <= j
                 hi == CHOOSE i \in inside : \A j \in inside : j <= i
             IN  SubSeq(text, lo, hi)

\* The occurrences of items in df: <<row, start of the piece, item>>.
Occurrences ==
    UNION {{<<i, piece[1], ItemOf(Text(df.rows[i]["Product"]), piece)>> :
               piece \in Pieces(Text(df.rows[i]["Product"]))} :
           i \in {j \in 1..Len(df.rows) : df.rows[j]["Product"] # NA}}
Earlier(o1, o2) == o1[1] < o2[1] \/ (o1[1] = o2[1] /\ o1[2] < o2[2])
ProductTag == "TOP 5 MOST COMMON PRODUCTS"

\* C12: the products reported are the five most frequent items of the Product cells,
\* split at the commas and trimmed, in falling order of count; of two items of equal
\* count the one met first in the data comes first, also at the fifth place.
C12_TopFiveProducts ==
    (Ended /\ ProductTag \in Tags(out)) =>
    LET occ == Occurrences
        Items == {o[3] : o \in occ}
        CountOf(x) == Cardinality({o \in occ : o[3] = x})
        FirstOf(x) == CHOOSE o \in occ :
                          o[3] = x /\ \A o2 \in occ : (o2[3] = x /\ o2 # o) => Earlier(o, o2)
        Outranks(x, y) == \/ CountOf(x) > CountOf(y)
                          \/ CountOf(x) = CountOf(y) /\ Earlier(FirstOf(x), FirstOf(y))
        top == Printed(out, ProductTag)
        Listed == {top[i].key : i \in 1..Len(top)}
    IN  /\ Len(top) = IF Cardinality(Items) < 5 THEN Cardinality(Items) ELSE 5
        /\ \A i \in 1..Len(top) : top[i].key \in Items /\ top[i].count = CountOf(top[i].key)
        /\ \A i, j \in 1..Len(top) : i < j => Outranks(top[i].key, top[j].key)
        /\ \A x \in Items \ Listed : \A i \in 1..Len(top) : Outranks(top[i].key, x)
        /\ Printed(out, "Total unique products") = Cardinality(Items)

\* A run over more than five items, where an item left out has the count of the fifth
\* one listed and an item was trimmed of its spaces.
C12_Witness ==
    /\ pc = "done"
    /\ ProductTag \in Tags(out)
    /\ LET top == Printed(out, ProductTag)
       IN  /\ Len(top) = 5
           /\ top[1].count > top[5].count
           /\ \E o \in Occurrences :
                 /\ \A i \in 1..5 : top[i].key # o[3]
                 /\ Cardinality({o2 \in Occurrences : o2[3] = o[3]}) = top[5].count
           /\ \E i \in 1..5 : top[i].key = <<"Ice", " ", "Cream">>

(***************************************************************************)
(* The cities.                                                             *)
(***************************************************************************)
CityTag == "TOP 10 CITIES BY TRANSACTION COUNT"
RowsIn(city) == {i \in 1..Len(df.rows) : df.rows[i]["City"] = city}
Cities == {df.rows[i]["City"] : i \in 1..Len(df.rows)} \ {NA}
RECURSIVE SumOver(_, _)
SumOver(f, n) == IF n = 0 THEN 0 ELSE f[n] + SumOver(f, n - 1)

\* The lines for a column of the values x, y, x, x.
CityExample ==
    city_lines(prepare([i \in 1..4 |->
                           [BaseRow EXCEPT !["Total_Cost"] = <<i * Scale>>,
                                           !["City"] = <<"x", "y", "x", "x">>[i]]]))

\* C13: for a cleaned dataset with rows the ten cities of most transactions are listed
\* in falling order of count, each with count / rows * 100, and the percentages add up
\* to at most 100; of the values x, y, x, x the first is x with 75.0.
C13_TopTenCities ==
    /\ CityExample[1].key = "x"
    /\ CityExample[1].pct = Frac(75, 1)
    /\ CityExample[1].shown = 750
    /\ (Ended /\ Loaded /\ CityTag \in Tags(out)) =>
       LET lines == Printed(out, CityTag)
           n == Len(lines)
           total == Len(df.rows)
           Listed == {lines[i].key : i \in 1..n}
       IN  /\ total > 0
           /\ n = IF Cardinality(Cities) < 10 THEN Cardinality(Cities) ELSE 10
           /\ Cardinality(Listed) = n
           /\ \A i \in 1..n :
                 /\ lines[i].key \in Cities
                 /\ lines[i].count = Cardinality(RowsIn(lines[i].key))
                 /\ lines[i].pct.kind = "num"
                 /\ lines[i].pct.num * total = lines[i].count * 100 * lines[i].pct.den
           /\ \A i, j \in 1..n : i < j => lines[i].count >= lines[j].count
           /\ \A c \in Cities \ Listed :
                 \A i \in 1..n : lines[i].count >= Cardinality(RowsIn(c))
           \* every denominator divides total, so this is the sum of the percentages
           /\ SumOver([i \in 1..n |-> lines[i].pct.num * (total \div lines[i].pct.den)], n)
                 <= 100 * total
           /\ \A i \in 1..n : total % lines[i].pct.den = 0
           /\ exploration_results # None =>
                 exploration_results.city_transactions =
                     [i \in 1..n |-> [key |-> lines[i].key, count |-> lines[i].count]]

\* A run over more than ten cities, of which ten are listed and one has two rows.
C13_Witness ==
    /\ pc = "done"
    /\ Loaded
    /\ CityTag \in Tags(out)
    /\ Cardinality(Cities) > 10
    /\ Len(Printed(out, CityTag)) = 10
    /\ Printed(out, CityTag)[1].count = 2
    /\ Printed(out, CityTag)[10].count = 1

(***************************************************************************)
(* The count of duplicates.                                                *)
(***************************************************************************)
\* C14: the cleaned dataset has at most the rows of the table read, and the number of
\* duplicates reported is the rows of the table read less the rows of the cleaned
\* dataset returned.
C14_DuplicatesReported ==
    Returned =>
        /\ Len(df.rows) <= Len(file.rows)
        /\ Printed(out, "Duplicates removed") = Len(file.rows) - Len(df.rows)
        /\ Printed(out, "Data cleaning completed") = Len(df.rows)

\* Duplicates were removed from a table that also had a null cell filled.
C14_Witness ==
    /\ Returned
    /\ Printed(out, "Duplicates removed") > 0
    /\ Len(df.rows) > 1
    /\ \E i \in 1..Len(file.rows) : file.rows[i]["Total_Cost"] = NaN
    /\ \A i \in 1..Len(df.rows) : df.rows[i]["Total_Cost"] # NaN

(***************************************************************************)
(* The library, src/library_management_system_Assignment.py.               *)
(*                                                                         *)
(* A dict is a function on its keys; the keys of books and members are     *)
(* inserted in rising order, so a loop over .items() meets them in rising  *)
(* order.  A str is a sequence of characters, Chars(s).  Every function is *)
(* an action; call holds its name, its arguments, what it returned, the    *)
(* exception it raised and the lines it printed.  An exception is caught   *)
(* nowhere (main_menu catches ValueError only), so it ends the program.    *)
(***************************************************************************)
\* The most books and members added, and the most entries of borrow_log.
MaxBooks == 2
MaxMembers == 2
MaxLog == 3

Statuses == {"Available", "Issued"}

\* The arguments that calls are made with.
\* The k-th book added is BookInputs[k], the list taken round and round.
BookInputs ==
    <<[title |-> "Emma", author |-> "Jane", genre |-> "Classic"],
      [title |-> "Jane Eyre", author |-> "Bronte", genre |-> "SciFi"],
      [title |-> "Dune", author |-> "Herbert", genre |-> "SciFi"]>>
MemberInputs ==
    {[name |-> "Ravi", age |-> 30, contact |-> "ravi@x.in"]}
Queries == {"", "JANE", "x"}
Genres == {"Classic", "Poetry"}
Dates == {"2024-01-01 10:00:00"}

Chars(s) ==
    CASE s = "" -> <<>>
      [] s = "x" -> <<"x">>
      [] s = "JANE" -> <<"J", "A", "N", "E">>
      [] s = "Jane" -> <<"J", "a", "n", "e">>
      [] s = "Emma" -> <<"E", "m", "m", "a">>
      [] s = "Jane Eyre" -> <<"J", "a", "n", "e", " ", "E", "y", "r", "e">>
      [] s = "Bronte" -> <<"B", "r", "o", "n", "t", "e">>
      [] s = "Dune" -> <<"D", "u", "n", "e">>
      [] s = "Herbert" -> <<"H", "e", "r", "b", "e", "r", "t">>

UpperCase == <<"A", "B", "C", "D", "E", "F", "G", "H", "I", "J", "K", "L", "M", "N", "O",
               "P", "Q", "R", "S", "T", "U", "V", "W", "X", "Y", "Z">>
LowerCase == <<"a", "b", "c", "d", "e", "f", "g", "h", "i", "j", "k", "l", "m", "n", "o",
               "p", "q", "r", "s", "t", "u", "v", "w", "x", "y", "z">>
LowerOf ==
    [c \in SeqToSet(UpperCase) \cup SeqToSet(LowerCase) \cup {" "} |->
        IF \E k \in 1..26 : UpperCase[k] = c
        THEN LowerCase[CHOOSE k \in 1..26 : UpperCase[k] = c]
        ELSE c]
\* str.lower()
lower(text) == [i \in 1..Len(text) |-> LowerOf[text[i]]]
\* needle in haystack
in(needle, haystack) ==
    \E at \in 0..(Len(haystack) - Len(needle)) :
        SubSeq(haystack, at + 1, at + Len(needle)) = needle

\* dict[key] = value, and the keys in rising order.
Put(dict, key, value) ==
    [k \in DOMAIN dict \cup {key} |-> IF k = key THEN value ELSE dict[k]]
RECURSIVE sorted(_)
sorted(S) ==
    IF S = {} THEN <<>>
    ELSE LET m == CHOOSE x \in S : \A y \in S : x <= y
         IN  <<m>> \o sorted(S \ {m})

Running == call.raises = "none"
Call(fn, args, returns, shown) ==
    [fn |-> fn, args |-> args, returns |-> returns, raises |-> "none", shown |-> shown]

\* Lines 24-44.
add_book(title, author, genre) ==
    /\ Running
    /\ LET book_id == next_book_id
       IN  /\ books' = Put(books, book_id, [title |-> title, author |-> author,
                                            genre |-> genre, availability |-> "Available"])
           /\ next_book_id' = next_book_id + 1
           /\ call' = Call("add_book", <<title, author, genre>>, book_id,
                           <<"Book added successfully!">>)
    /\ UNCHANGED <<members, borrow_log, member_borrowed_books, next_member_id>>
    /\ UNCHANGED retail_vars

\* Lines 117-139.
add_member(name, age, contact) ==
    /\ Running
    /\ LET member_id == next_member_id
       IN  /\ members' = Put(members, member_id,
                             [name |-> name, age |-> age, contact |-> contact])
           /\ member_borrowed_books' = Put(member_borrowed_books, member_id, <<>>)
           /\ next_member_id' = next_member_id + 1
           /\ call' = Call("add_member", <<name, age, contact>>, member_id,
                           <<"Member added successfully!">>)
    /\ UNCHANGED <<books, borrow_log, next_book_id>>
    /\ UNCHANGED retail_vars

\* search_book_by_title comparing the title as it is written.
search_book_by_title_as_written(title) ==
    LET title_lower == lower(Chars(title))
    IN  SelectSeq(sorted(DOMAIN books), LAMBDA book_id : in(title_lower, Chars(books[book_id].title)))

\* Lines 47-60: the ids of the books found, in the order of books.items().
search_book_by_title(title) ==
    LET title_lower == lower(Chars(title))
    IN  SelectSeq(sorted(DOMAIN books),
                  LAMBDA book_id : in(title_lower, lower(Chars(books[book_id].title))))

\* Lines 63-78.
search_book_by_author(author) ==
    LET author_lower == lower(Chars(author))
    IN  SelectSeq(sorted(DOMAIN books),
                  LAMBDA book_id : in(author_lower, lower(Chars(books[book_id].author))))

\* Lines 81-96.
update_book_availability(book_id, status) ==
    /\ Running
    /\ IF book_id \notin DOMAIN books
       THEN /\ call' = Call("update_book_availability", <<book_id, status>>, FALSE,
                            <<"Book ID not found!">>)
            /\ UNCHANGED books
       ELSE /\ books' = [books EXCEPT ![book_id].availability = status]
            /\ call' = Call("update_book_availability", <<book_id, status>>, TRUE, <<>>)
    /\ UNCHANGED <<members, borrow_log, member_borrowed_books, next_book_id,
                   next_member_id>>
    /\ UNCHANGED retail_vars

LogEntry(member_id, book_id, action, date) ==
    [member_id |-> member_id, book_id |-> book_id, action |-> action, date |-> date]

\* return_book that leaves the availability of the book as it is.
return_book_keeps_issued(member_id, book_id, date) ==
    /\ Running
    /\ member_id \in DOMAIN members
    /\ book_id \in DOMAIN books
    /\ \E i \in 1..Len(member_borrowed_books[member_id]) :
          member_borrowed_books[member_id][i] = book_id
    /\ Len(borrow_log) < MaxLog
    /\ LET list == member_borrowed_books[member_id]
           at == CHOOSE i \in 1..Len(list) :
                     list[i] = book_id /\ \A j \in 1..(i - 1) : list[j] # book_id
       IN  member_borrowed_books' =
               [member_borrowed_books EXCEPT
                   ![member_id] = SubSeq(list, 1, at - 1) \o SubSeq(list, at + 1, Len(list))]
    /\ borrow_log' = Append(borrow_log, LogEntry(member_id, book_id, "Returned", date))
    /\ call' = Call("return_book", <<member_id, book_id>>, TRUE, <<"successfully returned">>)
    /\ UNCHANGED <<books, members, next_book_id, next_member_id>>
    /\ UNCHANGED retail_vars

\* borrow_book without the test of lines 220-223.
borrow_book_unchecked(member_id, book_id, date) ==
    /\ Running
    /\ member_id \in DOMAIN members
    /\ book_id \in DOMAIN books
    /\ Len(borrow_log) < MaxLog
    /\ books' = [books EXCEPT ![book_id].availability = "Issued"]
    /\ member_borrowed_books' =
           [member_borrowed_books EXCEPT ![member_id] = Append(@, book_id)]
    /\ borrow_log' = Append(borrow_log, LogEntry(member_id, book_id, "Borrowed", date))
    /\ call' = Call("borrow_book", <<member_id, book_id>>, TRUE,
                    <<"successfully borrowed">>)
    /\ UNCHANGED <<members, next_book_id, next_member_id>>
    /\ UNCHANGED retail_vars

\* borrow_book that puts the book in the list of the member before it tests whether
\* the book is available.
borrow_book_lists_first(member_id, book_id, date) ==
    /\ Running
    /\ IF member_id \notin DOMAIN members
       THEN /\ call' = Call("borrow_book", <<member_id, book_id>>, FALSE,
                            <<"Member ID not found!">>)
            /\ UNCHANGED <<books, member_borrowed_books, borrow_log>>
       ELSE IF book_id \notin DOMAIN books
       THEN /\ call' = Call("borrow_book", <<member_id, book_id>>, FALSE,
                            <<"Book ID not found!">>)
            /\ UNCHANGED <<books, member_borrowed_books, borrow_log>>
       ELSE IF books[book_id].availability # "Available"
       THEN /\ call' = Call("borrow_book", <<member_id, book_id>>, FALSE,
                            <<"is not available (already issued)!">>)
            /\ member_borrowed_books' =
                   [member_borrowed_books EXCEPT ![member_id] = Append(@, book_id)]
            /\ UNCHANGED <<books, borrow_log>>
       ELSE /\ Len(borrow_log) < MaxLog
            /\ books' = [books EXCEPT ![book_id].availability = "Issued"]
            /\ member_borrowed_books' =
                   [member_borrowed_books EXCEPT ![member_id] = Append(@, book_id)]
            /\ borrow_log' = Append(borrow_log,
                                    LogEntry(member_id, book_id, "Borrowed", date))
            /\ call' = Call("borrow_book", <<member_id, book_id>>, TRUE,
                            <<"successfully borrowed">>)
    /\ UNCHANGED <<members, next_book_id, next_member_id>>
    /\ UNCHANGED retail_vars

\* Lines 194-238; date is what datetime.now() gives.
borrow_book(member_id, book_id, date) ==
    /\ Running
    /\ IF member_id \notin DOMAIN members
       THEN /\ call' = Call("borrow_book", <<member_id, book_id>>, FALSE,
                            <<"Member ID not found!">>)
            /\ UNCHANGED <<books, member_borrowed_books, borrow_log>>
       ELSE IF book_id \notin DOMAIN books
       THEN /\ call' = Call("borrow_book", <<member_id, book_id>>, FALSE,
                            <<"Book ID not found!">>)
            /\ UNCHANGED <<books, member_borrowed_books, borrow_log>>
       ELSE IF books[book_id].availability # "Available"
       THEN /\ call' = Call("borrow_book", <<member_id, book_id>>, FALSE,
                            <<"is not available (already issued)!">>)
            /\ UNCHANGED <<books, member_borrowed_books, borrow_log>>
       ELSE /\ Len(borrow_log) < MaxLog
            /\ books' = [books EXCEPT ![book_id].availability = "Issued"]
            /\ member_borrowed_books' =
                   [member_borrowed_books EXCEPT ![member_id] = Append(@, book_id)]
            /\ borrow_log' = Append(borrow_log,
                                    LogEntry(member_id, book_id, "Borrowed", date))
            /\ call' = Call("borrow_book", <<member_id, book_id>>, TRUE,
                            <<"successfully borrowed">>)
    /\ UNCHANGED <<members, next_book_id, next_member_id>>
    /\ UNCHANGED retail_vars

\* return_book testing that some member holds the book, not that this member does.
return_book_any_holder(member_id, book_id, date) ==
    /\ Running
    /\ member_id \in DOMAIN members
    /\ book_id \in DOMAIN books
    /\ \E h \in DOMAIN members : book_id \in SeqToSet(member_borrowed_books[h])
    /\ Len(borrow_log) < MaxLog
    /\ books' = [books EXCEPT ![book_id].availability = "Available"]
    /\ LET h == CHOOSE x \in DOMAIN members : book_id \in SeqToSet(member_borrowed_books[x])
       IN  member_borrowed_books' =
               [member_borrowed_books EXCEPT
                   ![h] = SelectSeq(@, LAMBDA x : x # book_id)]
    /\ borrow_log' = Append(borrow_log, LogEntry(member_id, book_id, "Returned", date))
    /\ call' = Call("return_book", <<member_id, book_id>>, TRUE, <<"successfully returned">>)
    /\ UNCHANGED <<members, next_book_id, next_member_id>>
    /\ UNCHANGED retail_vars

\* return_book that puts its entry at the front of borrow_log.
return_book_logs_in_front(member_id, book_id, date) ==
    /\ Running
    /\ IF member_id \notin DOMAIN members
       THEN /\ call' = Call("return_book", <<member_id, book_id>>, FALSE,
                            <<"Member ID not found!">>)
            /\ UNCHANGED <<books, member_borrowed_books, borrow_log>>
       ELSE IF book_id \notin DOMAIN books
       THEN /\ call' = Call("return_book", <<member_id, book_id>>, FALSE,
                            <<"Book ID not found!">>)
            /\ UNCHANGED <<books, member_borrowed_books, borrow_log>>
       ELSE IF \A i \in 1..Len(member_borrowed_books[member_id]) :
                   member_borrowed_books[member_id][i] # book_id
       THEN /\ call' = Call("return_book", <<member_id, book_id>>, FALSE,
                            <<"did not borrow">>)
            /\ UNCHANGED <<books, member_borrowed_books, borrow_log>>
       ELSE /\ Len(borrow_log) < MaxLog
            /\ books' = [books EXCEPT ![book_id].availability = "Available"]
            /\ LET list == member_borrowed_books[member_id]
                   at == CHOOSE i \in 1..Len(list) :
                             list[i] = book_id /\ \A j \in 1..(i - 1) : list[j] # book_id
               IN  member_borrowed_books' =
                       [member_borrowed_books EXCEPT
                           ![member_id] = SubSeq(list, 1, at - 1) \o
                                          SubSeq(list, at + 1, Len(list))]
            /\ borrow_log' = <<LogEntry(member_id, book_id, "Returned", date)>> \o
                              borrow_log
            /\ call' = Call("return_book", <<member_id, book_id>>, TRUE,
                            <<"successfully returned">>)
    /\ UNCHANGED <<members, next_book_id, next_member_id>>
    /\ UNCHANGED retail_vars

\* Lines 241-285; list.remove takes out the first occurrence.
return_book(member_id, book_id, date) ==
    /\ Running
    /\ IF member_id \notin DOMAIN members
       THEN /\ call' = Call("return_book", <<member_id, book_id>>, FALSE,
                            <<"Member ID not found!">>)
            /\ UNCHANGED <<books, member_borrowed_books, borrow_log>>
       ELSE IF book_id \notin DOMAIN books
       THEN /\ call' = Call("return_book", <<member_id, book_id>>, FALSE,
                            <<"Book ID not found!">>)
            /\ UNCHANGED <<books, member_borrowed_books, borrow_log>>
       ELSE IF \A i \in 1..Len(member_borrowed_books[member_id]) :
                   member_borrowed_books[member_id][i] # book_id
       THEN /\ call' = Call("return_book", <<member_id, book_id>>, FALSE,
                            <<"did not borrow">>)
            /\ UNCHANGED <<books, member_borrowed_books, borrow_log>>
       ELSE /\ Len(borrow_log) < MaxLog
            /\ books' = [books EXCEPT ![book_id].availability = "Available"]
            /\ LET list == member_borrowed_books[member_id]
                   at == CHOOSE i \in 1..Len(list) :
                             list[i] = book_id /\ \A j \in 1..(i - 1) : list[j] # book_id
               IN  member_borrowed_books' =
                       [member_borrowed_books EXCEPT
                           ![member_id] = SubSeq(list, 1, at - 1) \o
                                          SubSeq(list, at + 1, Len(list))]
            /\ borrow_log' = Append(borrow_log,
                                    LogEntry(member_id, book_id, "Returned", date))
            /\ call' = Call("return_book", <<member_id, book_id>>, TRUE,
                            <<"successfully returned">>)
    /\ UNCHANGED <<members, next_book_id, next_member_id>>
    /\ UNCHANGED retail_vars

ReadOnly == UNCHANGED <<books, members, borrow_log, member_borrowed_books, next_book_id,
                        next_member_id>>

\* Lines 288-301.
display_borrow_log ==
    /\ Running
    /\ call' = Call("display_borrow_log", <<>>, "None",
                    IF borrow_log = <<>> THEN <<"No transactions yet.">>
                    ELSE [i \in 1..Len(borrow_log) |->
                             LET log == borrow_log[i]
                             IN  [date |-> log.date, member_id |-> log.member_id,
                                  book_id |-> log.book_id, action |-> log.action,
                                  member_name |-> members[log.member_id].name,
                                  book_title |-> books[log.book_id].title]])
    /\ ReadOnly
    /\ UNCHANGED retail_vars

\* Lines 308-327.  Line 315 calls get_books_by_genre, a name that is defined nowhere
\* in the module: the call raises NameError before anything is printed.
get_available_books_by_genre(genre) ==
    /\ Running
    /\ call' = [fn |-> "get_available_books_by_genre", args |-> <<genre>>,
                returns |-> "None", raises |-> "NameError", shown |-> <<>>]
    /\ ReadOnly
    /\ UNCHANGED retail_vars

\* Lines 352-382.
search_book(query) ==
    /\ Running
    /\ LET title_results == search_book_by_title(query)
           author_results == search_book_by_author(query)
           all_results == SeqToSet(title_results \o author_results)
           found == sorted(all_results)
       IN  call' = Call("search_book", <<query>>, "None",
                        <<"Searching for">> \o
                        IF all_results = {} THEN <<"No books found matching">>
                        ELSE [i \in 1..Len(found) |->
                                 [book_id |-> found[i],
                                  title |-> books[found[i]].title,
                                  author |-> books[found[i]].author,
                                  genre |-> books[found[i]].genre,
                                  availability |-> books[found[i]].availability]])
    /\ ReadOnly
    /\ UNCHANGED retail_vars

(***************************************************************************)
(* The calls.  An id is one of a book or member that exists, or the next   *)
(* id, which none has yet.  LendingNext is the calls that the menu of      *)
(* main_menu (lines 437-533) makes, and search_book with the empty query,  *)
(* which the menu holds back but a caller of the function may pass.        *)
(* update_book_availability is called by no line of the module;            *)
(* LibraryNext adds the calls of it.                                       *)
(***************************************************************************)
BookIds == DOMAIN books \cup {next_book_id}
MemberIds == DOMAIN members \cup {next_member_id}

LendingNext ==
    \/ \E b \in {BookInputs[(Cardinality(DOMAIN books) % Len(BookInputs)) + 1]} :
          /\ Cardinality(DOMAIN books) < MaxBooks
          /\ add_book(b.title, b.author, b.genre)
    \/ \E m \in MemberInputs :
          /\ Cardinality(DOMAIN members) < MaxMembers
          /\ add_member(m.name, m.age, m.contact)
    \/ \E member_id \in MemberIds, book_id \in BookIds, date \in Dates :
          borrow_book(member_id, book_id, date)
    \/ \E member_id \in MemberIds, book_id \in BookIds, date \in Dates :
          return_book(member_id, book_id, date)
    \/ \E query \in Queries : search_book(query)
    \/ \E genre \in Genres : get_available_books_by_genre(genre)
    \/ display_borrow_log

LibraryNext ==
    \/ LendingNext
    \/ \E book_id \in BookIds, status \in Statuses :
          update_book_availability(book_id, status)

LibraryStart ==
    /\ file = [exists |-> FALSE, rows |-> <<>>]
    /\ pc = "main"
    /\ df = None
    /\ out = <<>>
    /\ exploration_results = None
    /\ spending_by_category = None
    /\ items_by_store = None
    /\ discount_diff = None
    /\ promotion_analysis = None
    /\ season_analysis = None
    /\ LibraryInit

LendingSpec == LibraryStart /\ [][LendingNext]_vars
LibrarySpec == LibraryStart /\ [][LibraryNext]_vars

(***************************************************************************)
(* Properties of the library.                                              *)
(***************************************************************************)
Holds(member_id, book_id) ==
    \E i \in 1..Len(member_borrowed_books[member_id]) :
        member_borrowed_books[member_id][i] = book_id
Without(list, i) == SubSeq(list, 1, i - 1) \o SubSeq(list, i + 1, Len(list))
Logged(member_id, book_id, action) ==
    /\ Len(borrow_log') = Len(borrow_log) + 1
    /\ SubSeq(borrow_log', 1, Len(borrow_log)) = borrow_log
    /\ LET entry == borrow_log'[Len(borrow_log')]
       IN  /\ entry.member_id = member_id
           /\ entry.book_id = book_id
           /\ entry.action = action

\* C15: borrow_book returns True exactly when the member exists, the book exists and
\* the book is 'Available'; then the book becomes 'Issued', its id is appended to the
\* list of that member and one 'Borrowed' entry is appended to borrow_log.
C15_BorrowBook ==
    [][(call'.fn = "borrow_book") =>
        LET member_id == call'.args[1]
            book_id == call'.args[2]
            ok == /\ member_id \in DOMAIN members
                  /\ book_id \in DOMAIN books
                  /\ books[book_id].availability = "Available"
        IN  /\ call'.returns = TRUE <=> ok
            /\ call'.returns = TRUE =>
                  /\ books'[book_id].availability = "Issued"
                  /\ \A b \in DOMAIN books \ {book_id} : books'[b] = books[b]
                  /\ member_borrowed_books'[member_id] =
                         Append(member_borrowed_books[member_id], book_id)
                  /\ \A m \in DOMAIN members \ {member_id} :
                        member_borrowed_books'[m] = member_borrowed_books[m]
                  /\ Logged(member_id, book_id, "Borrowed")]_vars

\* The second member borrowed a book after an earlier borrow and return.
C15_Witness ==
    /\ call.fn = "borrow_book"
    /\ call.returns = TRUE
    /\ Len(borrow_log) = 3
    /\ borrow_log[2].action = "Returned"
    /\ borrow_log[3].member_id # borrow_log[1].member_id

\* C16: return_book returns True exactly when the member exists, the book exists and
\* the book is in the list of that member; then the book becomes 'Available', one
\* occurrence of its id leaves that list and one 'Returned' entry is appended to
\* borrow_log.  A book that only another member holds is never returned.
C16_ReturnBook ==
    [][(call'.fn = "return_book") =>
        LET member_id == call'.args[1]
            book_id == call'.args[2]
            ok == /\ member_id \in DOMAIN members
                  /\ book_id \in DOMAIN books
                  /\ Holds(member_id, book_id)
        IN  /\ call'.returns = TRUE <=> ok
            /\ (/\ member_id \in DOMAIN members
                /\ ~Holds(member_id, book_id)
                /\ \E other \in DOMAIN members : Holds(other, book_id))
               => /\ call'.returns = FALSE
                  /\ member_borrowed_books' = member_borrowed_books
                  /\ books' = books
            /\ call'.returns = TRUE =>
                  /\ books'[book_id].availability = "Available"
                  /\ \A b \in DOMAIN books \ {book_id} : books'[b] = books[b]
                  /\ \E i \in 1..Len(member_borrowed_books[member_id]) :
                        /\ member_borrowed_books[member_id][i] = book_id
                        /\ member_borrowed_books'[member_id] =
                               Without(member_borrowed_books[member_id], i)
                  /\ \A m \in DOMAIN members \ {member_id} :
                        member_borrowed_books'[m] = member_borrowed_books[m]
                  /\ Logged(member_id, book_id, "Returned")]_vars

\* A member returned a book while the other member holds another one.
C16_Witness ==
    /\ call.fn = "return_book"
    /\ call.returns = TRUE
    /\ \E other \in DOMAIN members :
          other # call.args[1] /\ member_borrowed_books[other] # <<>>

\* C17: get_available_books_by_genre completes without error and shows the books of
\* the genre that are 'Available', or the message that there are none.
C17_AvailableBooksByGenre ==
    (call.fn = "get_available_books_by_genre") =>
        LET genre == call.args[1]
            available == {b \in DOMAIN books : /\ books[b].genre = genre
                                               /\ books[b].availability = "Available"}
        IN  /\ call.raises = "none"
            /\ IF available = {}
               THEN call.shown = <<"No available books found in genre">>
               ELSE {call.shown[i].book_id : i \in 1..Len(call.shown)} = available

\* The letters a and b are the same but for their case.
SameLetter(a, b) ==
    a = b \/ \E k \in 1..26 : {a, b} = {UpperCase[k], LowerCase[k]}
ContainsIgnoringCase(needle, haystack) ==
    \E at \in 0..(Len(haystack) - Len(needle)) :
        \A k \in 1..Len(needle) : SameLetter(needle[k], haystack[at + k])

\* C18: search_book lists the books whose title or author contains the query, case
\* ignored, each once and in rising order of book id, and changes nothing of the
\* library.
C18_SearchBook ==
    [][(call'.fn = "search_book") =>
        LET query == Chars(call'.args[1])
            matching == {b \in DOMAIN books :
                            \/ ContainsIgnoringCase(query, Chars(books[b].title))
                            \/ ContainsIgnoringCase(query, Chars(books[b].author))}
            listed == Tail(call'.shown)
        IN  /\ UNCHANGED <<books, members, borrow_log, member_borrowed_books,
                           next_book_id, next_member_id>>
            /\ call'.raises = "none"
            /\ IF matching = {}
               THEN listed = <<"No books found matching">>
               ELSE /\ Len(listed) = Cardinality(matching)
                    /\ \A i \in 1..Len(listed) :
                          /\ listed[i].book_id \in matching
                          /\ listed[i].title = books[listed[i].book_id].title
                          /\ listed[i].author = books[listed[i].book_id].author
                          /\ listed[i].availability = books[listed[i].book_id].availability
                    /\ \A i, j \in 1..Len(listed) :
                          i < j => listed[i].book_id < listed[j].book_id]_vars

\* A query in capitals found one book by its author and the next, which is out on
\* loan, by its title.
C18_Witness ==
    /\ call.fn = "search_book"
    /\ call.args = <<"JANE">>
    /\ Len(call.shown) = 3
    /\ call.shown[2].author = "Jane"
    /\ call.shown[3].title = "Jane Eyre"
    /\ call.shown[3].availability = "Issued"

\* C19: with add_book, add_member, borrow_book and return_book only, a book is in the
\* list of at most one member and at most once in it, and it is 'Issued' exactly when
\* it is in some list, 'Available' otherwise.
C19_HoldingsMatchAvailability ==
    \A b \in DOMAIN books :
        LET places == {<<m, i>> \in (DOMAIN members) \X (1..MaxLog) :
                          /\ i <= Len(member_borrowed_books[m])
                          /\ member_borrowed_books[m][i] = b}
        IN  /\ Cardinality(places) <= 1
            /\ books[b].availability = "Issued" <=> places # {}
            /\ books[b].availability = "Available" <=> places = {}

\* One book is out with the second member and another is back on the shelf.
C19_Witness ==
    /\ Len(borrow_log) = 3
    /\ \E b1, b2 \in DOMAIN books :
          /\ b1 # b2
          /\ books[b1].availability = "Issued"
          /\ books[b2].availability = "Available"
          /\ \E i \in 1..3 : borrow_log[i].book_id = b2 /\ borrow_log[i].action = "Returned"
          /\ \E m \in DOMAIN members : Holds(m, b1) /\ borrow_log[1].member_id # m

\* C20: with update_book_availability called too, a book is still with at most one
\* member, and it is 'Issued' exactly when some member has it.
C20_HoldingsSurviveUpdate ==
    \A b \in DOMAIN books :
        LET Holders == {m \in DOMAIN members : Holds(m, b)}
        IN  /\ Cardinality(Holders) <= 1
            /\ (books[b].availability = "Issued") = (Holders # {})

\* C21: a call of borrow_book, return_book or update_book_availability that returns
\* False leaves books, members, member_borrowed_books, borrow_log and the two id
\* counters as they were.
C21_FailedCallChangesNothing ==
    [][(/\ call'.fn \in {"borrow_book", "return_book", "update_book_availability"}
        /\ call'.returns = FALSE)
       => /\ books' = books
          /\ members' = members
          /\ member_borrowed_books' = member_borrowed_books
          /\ borrow_log' = borrow_log
          /\ next_book_id' = next_book_id
          /\ next_member_id' = next_member_id]_vars

\* A member asked for a book that the other member holds and was refused, with the
\* books, the lists and the log in use.
C21_Witness ==
    /\ call.fn = "borrow_book"
    /\ call.returns = FALSE
    /\ call.args[1] \in DOMAIN members
    /\ call.args[2] \in DOMAIN books
    /\ \E other \in DOMAIN members : other # call.args[1] /\ Holds(other, call.args[2])
    /\ borrow_log # <<>>

\* The entries of borrow_log for one book, in the order of the log.
EntriesOf(book_id) == SelectSeq(borrow_log, LAMBDA log : log.book_id = book_id)
Succeeded(fn) == call'.fn = fn /\ call'.returns = TRUE

\* C22: with add_book, add_member, borrow_book and return_book, borrow_log only grows
\* at its end, by one entry for each borrow or return that succeeds and by nothing
\* else, and the entries of a book go 'Borrowed', 'Returned', 'Borrowed', ... from
\* 'Borrowed' on, each 'Returned' with the member of the 'Borrowed' before it.
C22_LogAppendOnlyAlternating ==
    /\ [][/\ \/ borrow_log' = borrow_log
             \/ /\ Len(borrow_log') = Len(borrow_log) + 1
                /\ SubSeq(borrow_log', 1, Len(borrow_log)) = borrow_log
          /\ (Succeeded("borrow_book") \/ Succeeded("return_book"))
                <=> borrow_log' # borrow_log
          /\ borrow_log' # borrow_log =>
                LET entry == borrow_log'[Len(borrow_log')]
                IN  /\ entry.member_id = call'.args[1]
                    /\ entry.book_id = call'.args[2]
                    /\ entry.action = IF call'.fn = "borrow_book" THEN "Borrowed"
                                      ELSE "Returned"]_vars
    /\ [](\A b \in DOMAIN books :
             LET entries == EntriesOf(b)
             IN  \A i \in 1..Len(entries) :
                    /\ entries[i].action = IF i % 2 = 1 THEN "Borrowed" ELSE "Returned"
                    /\ i % 2 = 0 => entries[i].member_id = entries[i - 1].member_id)
    /\ [](\A i \in 1..Len(borrow_log) : borrow_log[i].book_id \in DOMAIN books)

\* One book was borrowed and returned by one member and then borrowed by the other.
C22_Witness ==
    /\ Len(borrow_log) = 3
    /\ borrow_log[1].action = "Borrowed"
    /\ borrow_log[2].action = "Returned"
    /\ borrow_log[3].action = "Borrowed"
    /\ borrow_log[1].book_id = borrow_log[2].book_id
    /\ borrow_log[2].book_id = borrow_log[3].book_id
    /\ borrow_log[1].member_id = borrow_log[2].member_id
    /\ borrow_log[3].member_id # borrow_log[1].member_id

====
